---- MODULE Spec2Model ----
(***************************************************************************)
(* Model of the WebCV backend bootstrap: the application factory           *)
(* create_app (app/__init__.py), the entry module run.py with its          *)
(* /uploads route, and the requests served by the routes the factory       *)
(* defines (/health, /) and by the CORS policy it installs.                *)
(*                                                                         *)
(* Filesystem paths are sequences of components; an absolute path starts   *)
(* with the component "/".  URL paths are sequences of characters, so the  *)
(* CORS resource pattern is matched character by character.                *)
(***************************************************************************)
EXTENDS Integers, Sequences, FiniteSets, TLC

VARIABLES
    config,      \* the mapping  environment name -> config object  (config.config)
    flask_env,   \* the FLASK_ENV environment variable, or Unset
    fs,          \* the directories that exist (absolute paths)
    files,       \* the regular files that exist (absolute paths)
    apps,        \* the Flask app instances created so far, in order
    bound,       \* extension singleton -> the app instances it was bound to
    run_app,     \* index in apps of run.py's module-level app, 0 before run.py is imported
    response     \* the last response a request produced

vars == <<config, flask_env, fs, files, apps, bound, run_app, response>>

----------------------------------------------------------------------------
(* Bounds *)

MaxApps == 2

----------------------------------------------------------------------------
(* Values *)

Unset   == "<unset>"      \* an environment variable that is not set
NoneVal == "<None>"       \* Python's None

\* config.ENVIRONMENT, the hardcoded default environment name
ENVIRONMENT == "development"

\* The keys of config.config
ConfigNames == {"development", "production", "testing", "default"}

\* The module-level extension singletons
Extensions == {"db", "migrate", "jwt", "bcrypt", "mail"}

SQLITE_FALLBACK == "sqlite:///app.db"
PG_URI          == "postgresql://db/webcv"

DEFAULT_ORIGIN  == "http://localhost:3000"
SITE_ORIGIN     == "https://webcv.example"
OTHER_ORIGIN    == "https://evil.example"
Origins         == {DEFAULT_ORIGIN, SITE_ORIGIN, OTHER_ORIGIN}

\* os.getcwd() and Flask's app.root_path (the directory of the app package)
getcwd    == <<"/", "srv", "backend">>
root_path == <<"/", "srv", "backend", "app">>

ABS_UPLOADS == <<"/", "var", "uploads">>
REL_UPLOADS == <<"uploads">>

SubDirs == {"cvs", "profiles", "logos"}

----------------------------------------------------------------------------
(* Python and os.path helpers *)

Range(s) == {s[i] : i \in DOMAIN s}

\* dict.get(key, default)
Get(d, key, default) == IF key \in DOMAIN d THEN d[key] ELSE default

\* truth value of a str-or-None
Truthy(v) == v # NoneVal /\ v # ""

\* os.getenv(name, default) for name = 'FLASK_ENV'
getenv(default) == IF flask_env = Unset THEN default ELSE flask_env

isabs(p) == Len(p) > 0 /\ p[1] = "/"

\* os.path.join: an absolute second argument discards the first
join(a, b) == IF isabs(b) THEN b ELSE a \o b

\* how the operating system resolves a path: relative to the working directory
abspath(p) == join(getcwd, p)

\* os.path.exists(p) in filesystem F
exists(F, p) == abspath(p) \in F

\* os.makedirs(p, exist_ok=True) in filesystem F: p and every missing ancestor
makedirs(F, p) == F \cup {SubSeq(abspath(p), 1, k) : k \in 1..Len(abspath(p))}

----------------------------------------------------------------------------
(* Configuration objects: the upper-case attributes from_object copies *)

DatabaseUris  == {Unset, NoneVal, "", PG_URI}      \* Unset: attribute missing
UploadFolders == {<<>>, ABS_UPLOADS, REL_UPLOADS}  \* <<>>: attribute missing
CorsOrigins   == {{}, {SITE_ORIGIN}}               \* {}: attribute missing

ConfigObject(uri, folder, origins) ==
    LET keys == (IF uri = Unset THEN {} ELSE {"SQLALCHEMY_DATABASE_URI"})
                \cup (IF folder = <<>> THEN {} ELSE {"UPLOAD_FOLDER"})
                \cup (IF origins = {} THEN {} ELSE {"CORS_ORIGINS"})
    IN  [k \in keys |-> CASE k = "SQLALCHEMY_DATABASE_URI" -> uri
                          [] k = "UPLOAD_FOLDER" -> folder
                          [] k = "CORS_ORIGINS" -> origins]

ConfigObjects ==
    {ConfigObject(u, f, o) : u \in DatabaseUris, f \in UploadFolders, o \in CorsOrigins}

----------------------------------------------------------------------------
(* create_app, step by step *)

\* variant: FLASK_ENV wins over the argument
resolve_config_name_EnvFirst(config_name) ==
    IF flask_env # Unset THEN flask_env
    ELSE IF config_name = NoneVal THEN ENVIRONMENT ELSE config_name

\* the environment name: the argument, else FLASK_ENV, else ENVIRONMENT
resolve_config_name(config_name) ==
    IF config_name = NoneVal THEN getenv(ENVIRONMENT) ELSE config_name

\* config.get(config_name, config['default'])
choose_config(name) ==
    IF name \in DOMAIN config THEN config[name] ELSE config["default"]

\* variant: the fallback tests only for a missing key, not for None or ''
ensure_database_uri_MissingKeyOnly(cfg) ==
    IF "SQLALCHEMY_DATABASE_URI" \notin DOMAIN cfg
    THEN [k \in DOMAIN cfg \cup {"SQLALCHEMY_DATABASE_URI"} |->
             IF k = "SQLALCHEMY_DATABASE_URI" THEN SQLITE_FALLBACK ELSE cfg[k]]
    ELSE cfg

\* the fallback that sets SQLALCHEMY_DATABASE_URI when it is missing or falsy
ensure_database_uri(cfg) ==
    IF ~Truthy(Get(cfg, "SQLALCHEMY_DATABASE_URI", NoneVal))
    THEN [k \in DOMAIN cfg \cup {"SQLALCHEMY_DATABASE_URI"} |->
             IF k = "SQLALCHEMY_DATABASE_URI" THEN SQLITE_FALLBACK ELSE cfg[k]]
    ELSE cfg

\* db.init_app(app): SQLAlchemy refuses an app that names no database
db_init_app(cfg) ==
    IF Truthy(Get(cfg, "SQLALCHEMY_DATABASE_URI", NoneVal))
    THEN ""
    ELSE "RuntimeError: SQLALCHEMY_DATABASE_URI must be set"

\* variant: init_app drops the apps bound before
init_extensions_Rebind(b, a) == [e \in Extensions |-> {a}]

\* the five init_app calls: each singleton registers itself with app number a
init_extensions(b, a) == [e \in Extensions |-> b[e] \cup {a}]

\* variant: the resource pattern r"/*"
CORS_RESOURCE_Everywhere == <<"/", "*">>

\* the resource pattern r"/api/*", a regular expression
CORS_RESOURCE == <<"/", "a", "p", "i", "/", "*">>

\* the options CORS(app, ...) installs
cors_policy(cfg) ==
    [resources            |-> CORS_RESOURCE,
     origins              |-> Get(cfg, "CORS_ORIGINS", {DEFAULT_ORIGIN}),
     supports_credentials |-> TRUE,
     allow_headers        |-> {"Content-Type", "Authorization"},
     methods              |-> {"GET", "POST", "PUT", "PATCH", "DELETE", "OPTIONS"}]

\* app.config.get('UPLOAD_FOLDER', os.path.join(os.getcwd(), 'uploads'))
resolve_upload_folder(cfg) ==
    Get(cfg, "UPLOAD_FOLDER", join(getcwd, <<"uploads">>))

\* variant: no guard and no exist_ok, so an existing folder raises
ensure_upload_dirs_NoExistOk(F, upload_folder) ==
    IF exists(F, upload_folder)
    THEN [fs |-> F, error |-> "FileExistsError"]
    ELSE [fs |-> makedirs(makedirs(makedirs(makedirs(F, upload_folder),
                     join(upload_folder, <<"cvs">>)),
                     join(upload_folder, <<"profiles">>)),
                     join(upload_folder, <<"logos">>)),
          error |-> ""]

\* the guarded directory creation: the new filesystem and the error raised, if any
ensure_upload_dirs(F, upload_folder) ==
    IF ~exists(F, upload_folder)
    THEN LET F1 == makedirs(F, upload_folder)
             F2 == makedirs(F1, join(upload_folder, <<"cvs">>))
             F3 == makedirs(F2, join(upload_folder, <<"profiles">>))
             F4 == makedirs(F3, join(upload_folder, <<"logos">>))
         IN  [fs |-> F4, error |-> ""]
    ELSE [fs |-> F, error |-> ""]

\* variant: the contact blueprint is not registered
RegisteredBlueprints_NoContact ==
    {"auth", "users", "jobs", "applications", "profiles", "job_alerts", "admin",
     "oauth", "saved_jobs", "cv_analysis", "notifications"}

\* the route groups registered with app.register_blueprint
RegisteredBlueprints ==
    {"auth", "users", "jobs", "applications", "profiles", "job_alerts", "admin",
     "contact", "oauth", "saved_jobs", "cv_analysis", "notifications"}

\* the rules create_app itself adds with @app.route
FactoryRoutes == {"/health", "/"}

\* the rule run.py adds
UPLOADS_RULE == "/uploads/<path:filename>"

\* The whole factory, as a function of the state it runs in: the app it builds,
\* the filesystem and the extension bindings it leaves, and the exception that
\* stopped it ("" when it returned).
create_app(config_name, a) ==
    LET name   == resolve_config_name(config_name)
        cfg    == ensure_database_uri(choose_config(name))
        dberr  == db_init_app(cfg)
        folder == resolve_upload_folder(cfg)
        dirs   == ensure_upload_dirs(fs, folder)
        error  == IF dberr # "" THEN dberr ELSE dirs.error
    IN  [app   |-> [arg           |-> config_name,
                    name          |-> name,
                    config        |-> cfg,
                    db_uri        |-> Get(cfg, "SQLALCHEMY_DATABASE_URI", NoneVal),
                    cors          |-> cors_policy(cfg),
                    upload_folder |-> folder,
                    blueprints    |-> IF error = "" THEN RegisteredBlueprints ELSE {},
                    routes        |-> IF error = "" THEN FactoryRoutes ELSE {},
                    error         |-> error],
         fs    |-> IF dberr # "" THEN fs ELSE dirs.fs,
         bound |-> IF dberr # "" THEN bound ELSE init_extensions(bound, a)]

----------------------------------------------------------------------------
(* Request handlers *)

EmptyResponse ==
    [kind |-> "none", app |-> 0, status |-> 0, body_status |-> "", endpoints |-> {},
     filename |-> <<>>, served |-> <<>>, path |-> <<>>, origin |-> "",
     req_method |-> "", acl_origin |-> "", acl_credentials |-> FALSE,
     acl_methods |-> {}, acl_headers |-> {}]

\* variant: the health check reports a failure
health_check_Unhealthy ==
    [status |-> 503, body_status |-> "unhealthy"]

\* GET /health
health_check ==
    [status |-> 200, body_status |-> "healthy"]

\* the 'endpoints' map of GET /
IndexEndpoints ==
    [k \in {"auth", "users", "jobs", "applications", "profiles", "job_alerts",
            "admin", "contact"} |->
        CASE k = "auth"         -> "/api/auth/*"
          [] k = "users"        -> "/api/users/*"
          [] k = "jobs"         -> "/api/jobs/*"
          [] k = "applications" -> "/api/applications/*"
          [] k = "profiles"     -> "/api/profiles/*"
          [] k = "job_alerts"   -> "/api/job-alerts/*"
          [] k = "admin"        -> "/api/admin/*"
          [] k = "contact"      -> "/api/contact"]

\* GET /
index ==
    [status |-> 200, endpoints |-> IndexEndpoints]

\* werkzeug's safe_join refuses a name that is absolute or climbs out with ".."
unsafe(filename) == isabs(filename) \/ ".." \in Range(filename)

\* GET /uploads/<path:filename> on run.py's app, whose configuration is cfg:
\* app.config['UPLOAD_FOLDER'] raises KeyError when the key is absent (a 500);
\* send_from_directory resolves the directory against app.root_path and answers
\* 404 unless the joined path is a regular file.
serve_uploaded_file(cfg, filename) ==
    IF "UPLOAD_FOLDER" \notin DOMAIN cfg
    THEN [status |-> 500, served |-> <<>>]
    ELSE LET directory == join(root_path, cfg["UPLOAD_FOLDER"])
         IN  [status |-> IF ~unsafe(filename) /\ (directory \o filename) \in files
                         THEN 200 ELSE 404,
              served |-> directory]

\* --- flask_cors ---

Lower(c) ==
    CASE c = "A" -> "a" [] c = "P" -> "p" [] c = "I" -> "i" [] OTHER -> c

\* re.match(pat, s, re.IGNORECASE) for patterns of literals, "." and "x*":
\* the match is anchored at the start of s and need not reach its end
RECURSIVE re_match_at(_, _, _, _)
re_match_at(pat, i, s, j) ==
    IF i > Len(pat) THEN TRUE
    ELSE LET one == j <= Len(s) /\ (pat[i] = "." \/ Lower(pat[i]) = Lower(s[j]))
         IN  IF i < Len(pat) /\ pat[i + 1] = "*"
             THEN re_match_at(pat, i + 2, s, j)
                  \/ (one /\ re_match_at(pat, i, s, j + 1))
             ELSE one /\ re_match_at(pat, i + 1, s, j + 1)

re_match(pat, s) == re_match_at(pat, 1, s, 1)

\* the headers the after-request hook adds to the answer to an OPTIONS request
cors_after_request(policy, path, origin, acl_request_method, acl_request_headers) ==
    LET none == [acl_origin |-> "", acl_credentials |-> FALSE,
                 acl_methods |-> {}, acl_headers |-> {}]
    IN  IF ~re_match(policy.resources, path) THEN none
        ELSE IF origin \notin policy.origins THEN none
        ELSE IF acl_request_method \in policy.methods
        THEN [acl_origin      |-> origin,
              acl_credentials |-> policy.supports_credentials,
              acl_methods     |-> policy.methods,
              acl_headers     |-> acl_request_headers \cap policy.allow_headers]
        ELSE [acl_origin      |-> origin,
              acl_credentials |-> policy.supports_credentials,
              acl_methods     |-> {},
              acl_headers     |-> {}]

----------------------------------------------------------------------------
(* Inputs *)

\* the config_name arguments tried: none, a known name, an unknown name
ConfigNameArgs == {NoneVal, "testing", "staging"}

\* the values FLASK_ENV may hold
FlaskEnvValues == {Unset, "production", "staging"}

\* directories that exist in any case
BaseDirs == {<<"/">>, <<"/", "srv">>, getcwd, root_path, <<"/", "var">>}

\* the upload folders a configuration can name, as the OS resolves them
UploadRoots == {abspath(resolve_upload_folder(o)) : o \in ConfigObjects}

\* the states an upload folder starts in: absent, present but empty, present
\* with only some of the subdirectories, present with all of them
Absent     == {"<absent>"}
RootStates == {Absent, {}, {"cvs"}, SubDirs}

InitialFilesystems ==
    {BaseDirs \cup UNION {IF sub[r] = Absent THEN {}
                          ELSE {r} \cup {r \o <<d>> : d \in sub[r]} : r \in UploadRoots} :
        sub \in [UploadRoots -> RootStates]}

\* a mapping whose named entries all hold o, with d under 'default'
ConfigMapping(o, d) == [n \in ConfigNames |-> IF n = "default" THEN d ELSE o]

\* the files requested from /uploads
Filenames == {<<"cvs", "cv.pdf">>, <<"missing.txt">>, <<"..", "run.py">>}

\* the files that may exist
CandidateFiles == {r \o <<"cvs", "cv.pdf">> : r \in UploadRoots}

\* URL paths, character by character
URL_ROOT     == <<"/">>
URL_HEALTH   == <<"/", "h", "e", "a", "l", "t", "h">>
URL_UPLOADS  == <<"/", "u", "p", "l", "o", "a", "d", "s", "/", "c", "v">>
URL_API_JOBS == <<"/", "a", "p", "i", "/", "j", "o", "b", "s">>
URL_API_AUTH == <<"/", "A", "P", "I", "/", "a", "u", "t", "h">>
URL_APIARY   == <<"/", "a", "p", "i", "a", "r", "y">>
UrlPaths     == {URL_ROOT, URL_HEALTH, URL_UPLOADS, URL_API_JOBS, URL_API_AUTH, URL_APIARY}

\* the method and headers a preflight asks for
PreflightMethods == {"PUT"}
PreflightHeaders == {"Content-Type", "Authorization", "X-Requested-With"}

----------------------------------------------------------------------------
(* The state machine *)

InitProcess ==
    /\ apps = <<>>
    /\ bound = [e \in Extensions |-> {}]
    /\ run_app = 0
    /\ response = EmptyResponse

\* Every configuration of the database URI and the CORS origins, under every
\* FLASK_ENV, on a machine where no upload folder exists yet
Init ==
    /\ \E o, d \in {c \in ConfigObjects : "UPLOAD_FOLDER" \notin DOMAIN c} :
          config = ConfigMapping(o, d)
    /\ flask_env \in FlaskEnvValues
    /\ fs = BaseDirs
    /\ files = {}
    /\ InitProcess

\* Every configuration of the upload folder, on every initial filesystem
InitFs ==
    /\ \E o, d \in {ConfigObject(PG_URI, f, {}) : f \in UploadFolders} :
          config = ConfigMapping(o, d)
    /\ flask_env = Unset
    /\ fs \in InitialFilesystems
    /\ files \in SUBSET {f \in CandidateFiles : SubSeq(f, 1, Len(f) - 1) \in fs}
    /\ InitProcess

\* the apps create_app returned
Returned == {i \in DOMAIN apps : apps[i].error = ""}

\* the process handles one thing at a time: no response is on its way out
Idle == response.kind = "none"

\* a direct call of the factory, create_app(config_name)
CreateApp(config_name) ==
    /\ Idle
    /\ Len(apps) < MaxApps
    /\ LET r == create_app(config_name, Len(apps) + 1)
       IN  /\ apps' = Append(apps, r.app)
           /\ fs' = r.fs
           /\ bound' = r.bound
    /\ UNCHANGED <<config, flask_env, files, run_app, response>>

\* importing run.py: app = create_app(), then the /uploads rule is added to it
RunModule ==
    /\ Idle
    /\ run_app = 0
    /\ Len(apps) < MaxApps
    /\ LET r == create_app(NoneVal, Len(apps) + 1)
       IN  /\ apps' = Append(apps,
                        IF r.app.error = ""
                        THEN [r.app EXCEPT !.routes = @ \cup {UPLOADS_RULE}]
                        ELSE r.app)
           /\ run_app' = IF r.app.error = "" THEN Len(apps) + 1 ELSE 0
           /\ fs' = r.fs
           /\ bound' = r.bound
    /\ UNCHANGED <<config, flask_env, files, response>>

GetHealth(i) ==
    /\ Idle
    /\ i \in Returned
    /\ "/health" \in apps[i].routes
    /\ response' = [EmptyResponse EXCEPT !.kind = "health", !.app = i,
                       !.status = health_check.status,
                       !.body_status = health_check.body_status]
    /\ UNCHANGED <<config, flask_env, fs, files, apps, bound, run_app>>

GetIndex(i) ==
    /\ Idle
    /\ i \in Returned
    /\ "/" \in apps[i].routes
    /\ response' = [EmptyResponse EXCEPT !.kind = "index", !.app = i,
                       !.status = index.status,
                       !.endpoints = DOMAIN index.endpoints]
    /\ UNCHANGED <<config, flask_env, fs, files, apps, bound, run_app>>

GetUpload(i, filename) ==
    /\ Idle
    /\ i \in Returned
    /\ UPLOADS_RULE \in apps[i].routes
    /\ LET r == serve_uploaded_file(apps[i].config, filename)
       IN  response' = [EmptyResponse EXCEPT !.kind = "uploads", !.app = i,
                           !.filename = filename,
                           !.status = r.status, !.served = r.served]
    /\ UNCHANGED <<config, flask_env, fs, files, apps, bound, run_app>>

Preflight(i, path, origin, method) ==
    /\ Idle
    /\ i \in Returned
    /\ LET h == cors_after_request(apps[i].cors, path, origin, method, PreflightHeaders)
       IN  response' = [EmptyResponse EXCEPT !.kind = "preflight", !.app = i,
                           !.path = path, !.origin = origin, !.req_method = method,
                           !.acl_origin = h.acl_origin,
                           !.acl_credentials = h.acl_credentials,
                           !.acl_methods = h.acl_methods,
                           !.acl_headers = h.acl_headers]
    /\ UNCHANGED <<config, flask_env, fs, files, apps, bound, run_app>>

\* the response reaches the client
Deliver ==
    /\ ~Idle
    /\ response' = EmptyResponse
    /\ UNCHANGED <<config, flask_env, fs, files, apps, bound, run_app>>

Next ==
    \/ \E n \in ConfigNameArgs : CreateApp(n)
    \/ RunModule
    \/ \E i \in 1..MaxApps : GetHealth(i)
    \/ \E i \in 1..MaxApps : GetIndex(i)
    \/ \E i \in 1..MaxApps, f \in Filenames : GetUpload(i, f)
    \/ \E i \in 1..MaxApps, p \in UrlPaths, o \in Origins, m \in PreflightMethods :
          Preflight(i, p, o, m)
    \/ Deliver

Spec == Init /\ [][Next]_vars

SpecFs == InitFs /\ [][Next]_vars

----------------------------------------------------------------------------
(* Properties *)

\* the configuration object create_app selected for app a
Selected(a) == IF a.name \in ConfigNames THEN config[a.name] ELSE config["default"]

\* the directory create_app ensured for app a, as the OS resolves it
UploadDir(a) == abspath(a.upload_folder)

\* C1: after create_app returns, cvs, profiles and logos all exist under the
\* upload folder, whatever the filesystem was before.
C1_SubdirsExist ==
    \A i \in Returned : \A d \in SubDirs : (UploadDir(apps[i]) \o <<d>>) \in fs

\* C2: db.init_app always sees a non-empty SQLALCHEMY_DATABASE_URI: the sqlite
\* fallback when the selected configuration leaves it missing, None or empty,
\* the configured value otherwise; create_app does not fail for lack of it.
C2_DatabaseUriSet ==
    \A i \in DOMAIN apps :
        LET configured == Get(Selected(apps[i]), "SQLALCHEMY_DATABASE_URI", NoneVal)
        IN  /\ apps[i].db_uri # NoneVal /\ apps[i].db_uri # ""
            /\ configured \in {NoneVal, ""} => apps[i].db_uri = SQLITE_FALLBACK
            /\ configured \notin {NoneVal, ""} => apps[i].db_uri = configured
            /\ apps[i].error = ""

C2_Witness ==
    \E i, j \in Returned :
        /\ "SQLALCHEMY_DATABASE_URI" \notin DOMAIN Selected(apps[i])
        /\ apps[i].db_uri = SQLITE_FALLBACK
        /\ Get(Selected(apps[j]), "SQLALCHEMY_DATABASE_URI", NoneVal) = ""
        /\ apps[j].db_uri = SQLITE_FALLBACK

\* C3: GET /uploads/<filename> for a file that is not in the upload directory
\* is answered 404, never 500, whatever the configuration.
C3_MissingFileIs404 ==
    (response.kind = "uploads"
        /\ (UploadDir(apps[response.app]) \o response.filename) \notin files)
    => response.status = 404

\* C4 (as stated): GET / answers 200 with eight endpoints whose keys are the
\* route groups create_app registers.
C4_EndpointsAreBlueprints ==
    response.kind = "index" =>
        /\ response.status = 200
        /\ Cardinality(response.endpoints) = 8
        /\ response.endpoints = apps[response.app].blueprints

\* C4 (amended): GET / answers 200 with eight endpoints, each of them a route
\* group create_app registers; oauth, saved_jobs, cv_analysis and notifications
\* are registered and not listed.
C4_EndpointsAmongBlueprints ==
    response.kind = "index" =>
        /\ response.status = 200
        /\ Cardinality(response.endpoints) = 8
        /\ response.endpoints \subseteq apps[response.app].blueprints
        /\ apps[response.app].blueprints \ response.endpoints
              = {"oauth", "saved_jobs", "cv_analysis", "notifications"}

C4_Witness ==
    response.kind = "index" /\ response.status = 200 /\ "contact" \in response.endpoints

\* C5: once create_app has returned, GET /health is routed and answers 200
\* with status 'healthy', whatever the configuration and the state.
C5_HealthAlwaysHealthy ==
    /\ \A i \in Returned : "/health" \in apps[i].routes
    /\ response.kind = "health" =>
          response.status = 200 /\ response.body_status = "healthy"

C5_Witness ==
    /\ response.kind = "health" /\ response.app = 2
    /\ apps[1].config # apps[2].config

\* C6: the environment name is the argument when given, else FLASK_ENV when
\* set, else ENVIRONMENT; the configuration applied is config[name] for a key
\* of the mapping and config['default'] for any other name, and create_app
\* does not fail on an unknown name.
C6_ConfigResolution ==
    \A i \in DOMAIN apps :
        LET a      == apps[i]
            name   == IF a.arg # NoneVal THEN a.arg
                      ELSE IF flask_env # Unset THEN flask_env ELSE ENVIRONMENT
            source == IF name \in ConfigNames THEN config[name] ELSE config["default"]
        IN  /\ a.name = name
            /\ DOMAIN a.config = DOMAIN source \cup {"SQLALCHEMY_DATABASE_URI"}
            /\ \A k \in DOMAIN source :
                  (k # "SQLALCHEMY_DATABASE_URI" \/ Truthy(source[k]))
                      => a.config[k] = source[k]
            /\ a.error = ""

C6_Witness ==
    /\ flask_env = "production"
    /\ config["default"] # config["production"]
    /\ \E i, j \in Returned :
          /\ apps[i].arg = "staging"
          /\ apps[i].config = ensure_database_uri(config["default"])
          /\ apps[j].arg = NoneVal /\ apps[j].name = "production"
          /\ apps[j].config = ensure_database_uri(config["production"])

\* the paths the resource pattern r"/api/*" matches: the pattern is a regular
\* expression tried at the start of the path without regard to case, so these
\* are the paths that begin with /api
UnderApi(path) ==
    /\ Len(path) >= 4
    /\ path[1] = "/"
    /\ path[2] \in {"a", "A"} /\ path[3] \in {"p", "P"} /\ path[4] \in {"i", "I"}

C8_DirectoryCreationIdempotent ==
    [][Len(apps') = Len(apps) + 1 =>
          LET new == apps'[Len(apps')]
          IN  /\ new.error = ""
              /\ (\E i \in Returned : UploadDir(apps[i]) = UploadDir(new)) => fs' = fs
      ]_vars

C8_Witness ==
    \E i, j \in Returned :
        /\ i < j
        /\ UploadDir(apps[i]) = UploadDir(apps[j])
        /\ \A d \in SubDirs : (UploadDir(apps[i]) \o <<d>>) \in fs

\* C9 (as stated): after any sequence of create_app calls each extension
\* singleton is bound to exactly one app instance.
C9_BoundToOneApp ==
    Len(apps) >= 1 => \A e \in Extensions : Cardinality(bound[e]) = 1

\* C9 (amended): after any sequence of create_app calls each extension
\* singleton is bound to every app instance create_app returned, so to exactly
\* one only while create_app has been called once.
C9_BoundToEveryApp ==
    \A e \in Extensions :
        /\ bound[e] = Returned
        /\ Len(apps) = 1 => Cardinality(bound[e]) = 1

C9_Witness ==
    Len(apps) = 2 /\ Returned = {1, 2} /\ bound["db"] = {1, 2} /\ bound["mail"] = {1, 2}

\* C10: the directory /uploads serves from is the directory create_app
\* ensured, whether or not the configuration has an UPLOAD_FOLDER key.
C10_SameUploadFolder ==
    response.kind = "uploads" => response.served = UploadDir(apps[response.app])

====
